---- MODULE Spec2Model ----
(***************************************************************************)
(* Model of src/run.py: the update tracker's external-variable parser      *)
(* (parse_external_vars), its change-detection and archival engine         *)
(* (save_response) and its orchestrator (main).                            *)
(*                                                                         *)
(* Byte strings are sequences of one-character strings.  Files are         *)
(* functions from file names to byte strings, a missing file being a name  *)
(* outside the function's domain.  README.md is a sequence of lines, each  *)
(* the link it holds (if any) and the texts that the pipes after the link  *)
(* close.                                                                  *)
(***************************************************************************)
EXTENDS Integers, Sequences, FiniteSets, TLC

VARIABLES
    pc,                    \* main: the statement main() is at
    r,                     \* main: the response last fetched
    parsed_external_vars,  \* main: the map parse_external_vars returned
    fetched,               \* log: URLs main fetched in this run, in order
    saved,                 \* log: names main passed to save_response, in order
    current,               \* CURRENT_FILES_PATH: name -> bytes
    history,               \* HISTORICAL_FILES_PATH: archive name -> bytes
    readme,                \* README_PATH: the lines of the Index
    clock,                 \* the wall clock, in ticks: one tick passes per call
    call,                  \* log: the last save_response call and its outcome
    prev_call,             \* log: the save_response call before it
    ncalls,                \* number of save_response calls made
    runs,                  \* number of runs of main started
    orphan,                \* log: name -> call aborted after its snapshot write
    last_write             \* log: name -> timestamp of the call that last
                           \*      wrote the name's Current Snapshot

vars == <<pc, r, parsed_external_vars, fetched, saved, current, history,
          readme, clock, call, prev_call, ncalls, runs, orphan,
          last_write>>

(***************************************************************************)
(* Bounds of the model.                                                    *)
(***************************************************************************)
MaxCalls == 3          \* save_response calls in one behaviour of Spec
MaxLen == 4            \* length of the enumerated parser inputs
MaxRuns == 2           \* runs of main in one behaviour of SpecMain

(***************************************************************************)
(* Bytes.                                                                  *)
(***************************************************************************)
Letters ==
    {"a", "b", "c", "d", "e", "f", "g", "h", "i", "j", "k", "l", "m",
     "n", "o", "p", "q", "r", "s", "t", "u", "v", "w", "x", "y", "z"}

Digits == {"0", "1", "2", "3", "4", "5", "6", "7", "8", "9"}

\* bytes.strip(): the ASCII whitespace bytes
AsciiWhitespace == {" ", "\t", "\n", "\r"}

\* [\w\.] of a bytes pattern: ASCII letters, digits, underscore, and the dot
IsKeyChar(c) == c \in Letters \cup Digits \cup {"_", "."}

RECURSIVE LStrip(_)
LStrip(b) ==
    IF b # <<>> /\ Head(b) \in AsciiWhitespace THEN LStrip(Tail(b)) ELSE b

RECURSIVE RStrip(_)
RStrip(b) ==
    IF b # <<>> /\ b[Len(b)] \in AsciiWhitespace
    THEN RStrip(SubSeq(b, 1, Len(b) - 1))
    ELSE b

Strip(b) == RStrip(LStrip(b))

\* content.split(b'\n'): always at least one piece
RECURSIVE SplitLines(_)
SplitLines(content) ==
    IF \E i \in 1..Len(content) : content[i] = "\n"
    THEN LET i == CHOOSE j \in 1..Len(content) :
                      /\ content[j] = "\n"
                      /\ \A k \in 1..(j - 1) : content[k] # "\n"
         IN  <<SubSeq(content, 1, i - 1)>>
                 \o SplitLines(SubSeq(content, i + 1, Len(content)))
    ELSE <<content>>

(***************************************************************************)
(* EXTERNAL_VAR_LINE_PATTERN = br' *([\w\.]+) *=(.+)' under re.match: the  *)
(* match is anchored at the start of the line; every quantifier is greedy  *)
(* and none can give a character back to a later part of the pattern,      *)
(* since spaces, key characters and "=" are disjoint classes.              *)
(***************************************************************************)
\* the first position >= i of line that holds no space (no key character)
RECURSIVE SkipSpaces(_, _)
SkipSpaces(line, i) ==
    IF i <= Len(line) /\ line[i] = " " THEN SkipSpaces(line, i + 1) ELSE i

RECURSIVE SkipKey(_, _)
SkipKey(line, i) ==
    IF i <= Len(line) /\ IsKeyChar(line[i]) THEN SkipKey(line, i + 1) ELSE i

NoMatch == [matched |-> FALSE, group1 |-> <<>>, group2 |-> <<>>]

\* the pattern with (.*) for its last group: a line that ends at "=" matches
MatchLine_EmptyValue(line) ==
    LET k0 == SkipSpaces(line, 1)
        k1 == SkipKey(line, k0)
        e  == SkipSpaces(line, k1)
    IN  IF k1 > k0 /\ e <= Len(line) /\ line[e] = "="
        THEN [matched |-> TRUE,
              group1  |-> SubSeq(line, k0, k1 - 1),
              group2  |-> SubSeq(line, e + 1, Len(line))]
        ELSE NoMatch

MatchLine(line) ==
    LET k0 == SkipSpaces(line, 1)
        k1 == SkipKey(line, k0)
        e  == SkipSpaces(line, k1)
    IN  IF /\ k1 > k0
           /\ e <= Len(line)
           /\ line[e] = "="
           /\ Len(line) > e
        THEN [matched |-> TRUE,
              group1  |-> SubSeq(line, k0, k1 - 1),
              group2  |-> SubSeq(line, e + 1, Len(line))]
        ELSE NoMatch

\* external_vars[key] = value
DictSet(d, key, value) ==
    [k \in DOMAIN d \cup {key} |-> IF k = key THEN value ELSE d[k]]

EmptyDict == [k \in {} |-> <<>>]

\* the key external_vars is assigned for a matched line
KeyOf(m) == Strip(m.group1)

\* the value external_vars is assigned for a matched line
ValueOf(m) == Strip(m.group2)

RECURSIVE ParseLines(_, _)
ParseLines(lines, external_vars) ==
    IF lines = <<>>
    THEN external_vars
    ELSE LET m == MatchLine(Head(lines))
         IN  ParseLines(Tail(lines),
                        IF m.matched
                        THEN DictSet(external_vars, KeyOf(m), ValueOf(m))
                        ELSE external_vars)

parse_external_vars(content) == ParseLines(SplitLines(content), EmptyDict)

\* dict.get(key, None): an optional value is a sequence of at most one element,
\* None being the empty one
None == <<>>

Some(v) == <<v>>

DictGet(d, key) == IF key \in DOMAIN d THEN Some(d[key]) ELSE None

(***************************************************************************)
(* Time.  A datetime is its second (two digits, as text) and microsecond;  *)
(* the date, hour and minute are the same in every datetime of the model.  *)
(***************************************************************************)
TwoDigits == <<"00", "01", "02", "03", "04", "05", "06", "07", "08", "09">>

TicksPerSecond == 2

\* datetime.utcnow() at clock tick t
utcnow(t) ==
    [second      |-> TwoDigits[(t \div TicksPerSecond) + 1],
     microsecond |-> (t % TicksPerSecond) * (1000000 \div TicksPerSecond)]

\* a Last-Modified value, 'Sat, 01 Jun 2024 10:00:SS GMT'
HttpDate(second) == <<"Sat, 01 Jun 2024 ", "10", ":", "00", ":", second, " GMT">>

\* datetime.strptime(value, '%a, %d %b %Y %H:%M:%S %Z')
strptime(value) == [second |-> value[6], microsecond |-> 0]

\* timestamp.isoformat(timespec='seconds'): the microsecond is dropped
isoformat_seconds(dt) == <<"2024-06-01", "T", "10", ":", "00", ":", dt.second>>

\* str.replace(old, new) on a text held as pieces
Replace(text, old, new) ==
    [i \in DOMAIN text |-> IF text[i] = old THEN new ELSE text[i]]

FormatTimestamp(dt) == Replace(isoformat_seconds(dt), ":", "-")

\* the header is never looked at
Timestamp_ClockOnly(headers, now) == utcnow(now)

\* lines 42-44 and 73-74: the Last-Modified header if present, else the clock
Timestamp(headers, now) ==
    IF "Last-Modified" \in DOMAIN headers
    THEN strptime(headers["Last-Modified"])
    ELSE utcnow(now)

(***************************************************************************)
(* Content: hashing and reformatting.                                      *)
(***************************************************************************)
\* hashlib.sha256(b).hexdigest(): a digest stands for the bytes it was taken
\* of (no two byte strings of the model share a digest)
sha256_hexdigest(b) == [sha256 |-> b]

\* a byte that is not valid UTF-8
InvalidUtf8Byte == "0xFF"

\* content.decode('utf8') raises UnicodeDecodeError
DecodeFails(b) == \E i \in 1..Len(b) : b[i] = InvalidUtf8Byte

\* json.loads on the documents of the model: insignificant whitespace is
\* skipped; an empty object or an empty array is a value; anything else
\* raises JSONDecodeError (None)
json_loads(text) ==
    LET tokens == SelectSeq(text, LAMBDA c : c \notin AsciiWhitespace)
    IN  IF tokens = <<"{", "}">> THEN Some("object")
        ELSE IF tokens = <<"[", "]">> THEN Some("array")
        ELSE None

\* json.dumps(value, indent=4) of an empty object or array
json_dumps(value) == IF value = "object" THEN <<"{", "}">> ELSE <<"[", "]">>

\* lines 46-53: the content compared and stored, or the exception that
\* leaves save_response
Prettify(raw, prettify) ==
    IF ~prettify THEN [raised |-> "", content |-> raw]
    ELSE IF DecodeFails(raw)
    THEN [raised |-> "UnicodeDecodeError", content |-> raw]
    ELSE LET decoded_json == json_loads(raw)
         IN  IF decoded_json = None
             THEN [raised |-> "", content |-> raw]
             ELSE [raised |-> "", content |-> json_dumps(decoded_json[1])]

(***************************************************************************)
(* Names.  A file name is its dot-separated parts.                         *)
(***************************************************************************)
N_client_urls == <<"client_urls", "txt">>

N_external_vars == <<"external_vars", "txt">>

N_external_texts == <<"external_texts", "txt">>

N_figuredata == <<"figuredata", "txt">>

N_override_texts == <<"external_flash_override_texts", "txt">>

\* name.rsplit('.', 1)
RSplit(name) == <<SubSeq(name, 1, Len(name) - 1), name[Len(name)]>>

\* line 78: f'{file_name}_{formatted_timestamp}_{current_hash}.{file_ext}'
HistoricalFileName(name, formatted_timestamp, current_hash) ==
    <<RSplit(name)[1], formatted_timestamp, current_hash, RSplit(name)[2]>>

\* the historical file is written with the content that was compared
HistoricalBytes_Compared(response, content) == content

\* line 85: the bytes written to the historical file
HistoricalBytes(response, content) == response.content

(***************************************************************************)
(* README.md.  A line is the link it holds (to a file name, or none) and   *)
(* the texts after the link that a pipe closes, in order.  The pattern of  *)
(* line 92 is  the link, a greedy group, a pipe, a greedy group, a pipe;   *)
(* the groups stay within the line, so the second group is the text        *)
(* between the last two pipes of a line that holds the link and at least   *)
(* two pipes after it; re.sub rewrites every such line.                    *)
(***************************************************************************)
\* the backquote character, which a string of this module cannot hold
Backquote == "U+0060"

\* line 93: ' `{formatted_timestamp}` '
TimestampCell(formatted_timestamp) ==
    <<" ", Backquote>> \o formatted_timestamp \o <<Backquote, " ">>

\* the pattern without the name: every row that holds a link is rewritten
ReSubLine_AnyLink(line, name, formatted_timestamp) ==
    IF line.link # None /\ Len(line.cells) >= 2
    THEN [line EXCEPT !.cells[Len(line.cells)] = TimestampCell(formatted_timestamp)]
    ELSE line

ReSubLine(line, name, formatted_timestamp) ==
    IF line.link = Some(name) /\ Len(line.cells) >= 2
    THEN [line EXCEPT !.cells[Len(line.cells)] = TimestampCell(formatted_timestamp)]
    ELSE line

ReSub(text, name, formatted_timestamp) ==
    [i \in DOMAIN text |-> ReSubLine(text[i], name, formatted_timestamp)]

Row(name) ==
    [link  |-> Some(name),
     cells |-> <<<<"(", name[1], ".", name[2], ") ">>, <<" ", Backquote, "never", Backquote, " ">>>>]

\* The Index as committed: a table head and one row per resource
InitialReadme ==
    << [link |-> None, cells |-> <<<<" File ">>, <<" Last changed ">>>>],
       [link |-> None, cells |-> <<<<"---">>, <<"---">>>>],
       Row(N_client_urls), Row(N_external_vars), Row(N_external_texts),
       Row(N_figuredata), Row(N_override_texts) >>

(***************************************************************************)
(* save_response.                                                          *)
(***************************************************************************)
NoFiles == [n \in {} |-> <<>>]

NoHeaders == [h \in {} |-> <<>>]

LastModified(value) == [h \in {"Last-Modified"} |-> value]

\* the existing file is never read: existing_hash stays None
Unchanged_NoRead(name, content, files) == FALSE

\* lines 57-64: existing_hash == current_hash
Unchanged(name, content, files) ==
    /\ name \in DOMAIN files
    /\ sha256_hexdigest(files[name]) = sha256_hexdigest(content)

\* What one call does: how it ends and the files it leaves.  fault names the
\* open() that raises OSError in this call: "history" (line 84), "readme"
\* (line 88) or "" (none).
SaveResult(name, response, prettify, now, fault) ==
    LET p == Prettify(response.content, prettify)
        content == p.content
        current_hash == sha256_hexdigest(content)
        formatted_timestamp == FormatTimestamp(Timestamp(response.headers, now))
        historical_file_name ==
            HistoricalFileName(name, formatted_timestamp, current_hash)
        kept == [outcome |-> "", compared |-> content, timestamp |-> None,
                 archive |-> None, current |-> current, history |-> history,
                 readme |-> readme]
        written == [kept EXCEPT !.current = DictSet(current, name, content),
                                !.timestamp = Some(formatted_timestamp),
                                !.archive = Some(historical_file_name)]
        archived == [written EXCEPT !.history =
                         DictSet(history, historical_file_name,
                                 HistoricalBytes(response, content))]
    IN  IF p.raised # ""
        THEN [kept EXCEPT !.outcome = p.raised]
        ELSE IF Unchanged(name, content, current)
        THEN [kept EXCEPT !.outcome = "unchanged"]
        ELSE IF fault = "history"
        THEN [written EXCEPT !.outcome = "OSError"]
        ELSE IF fault = "readme"
        THEN [archived EXCEPT !.outcome = "OSError"]
        ELSE [archived EXCEPT !.outcome = "changed",
                              !.readme = ReSub(readme, name, formatted_timestamp)]

NoCall ==
    [seq |-> 0, name |-> <<>>, content |-> <<>>, headers |-> NoHeaders,
     prettify |-> FALSE, now |-> 0, fault |-> "", outcome |-> "",
     compared |-> <<>>, timestamp |-> None, archive |-> None]

\* the call's effect on the files, and the log of it
save_response(name, response, prettify, now, fault) ==
    LET res == SaveResult(name, response, prettify, now, fault)
        wrote == res.outcome \in {"changed", "OSError"}
    IN  /\ current' = res.current
        /\ history' = res.history
        /\ readme' = res.readme
        /\ clock' = now + 1
        /\ ncalls' = ncalls + 1
        /\ prev_call' = call
        /\ call' = [seq |-> ncalls + 1, name |-> name,
                    content |-> response.content, headers |-> response.headers,
                    prettify |-> prettify, now |-> now, fault |-> fault,
                    outcome |-> res.outcome, compared |-> res.compared,
                    timestamp |-> res.timestamp, archive |-> res.archive]
        /\ last_write' = IF wrote
                         THEN DictSet(last_write, name, res.timestamp[1])
                         ELSE last_write
        /\ orphan' =
             IF res.outcome = "OSError"
             THEN DictSet(orphan, name,
                          [seq |-> ncalls + 1, content |-> response.content,
                           prettify |-> prettify, intact |-> TRUE])
             ELSE IF res.outcome = "changed" /\ name \in DOMAIN orphan
             THEN [orphan EXCEPT ![name].intact = FALSE]
             ELSE orphan

(***************************************************************************)
(* The engine under any sequence of calls.                                 *)
(***************************************************************************)
JsonA == <<"{", "}">>

JsonASpaced == <<"{", " ", "}">>

JsonB == <<"[", "]">>

NotJson == <<"a", "=", "b">>

NotUtf8 == <<InvalidUtf8Byte>>

\* The resources the engine is called for: one compared reformatted, as
\* line 104 does, and one compared as fetched, as line 107 does
Resources ==
    {[name |-> N_client_urls, prettify |-> TRUE],
     [name |-> N_external_vars, prettify |-> FALSE]}

\* the contents a fetch of the resource may return
Contents(resource) ==
    IF resource.prettify
    THEN {JsonA, JsonASpaced, NotJson, NotUtf8}
    ELSE {JsonB, NotJson}

HeaderSets == {NoHeaders, LastModified(HttpDate("01"))}

\* the open() calls that may raise OSError in a call: those it reaches
Faults(name, response, prettify) ==
    LET p == Prettify(response.content, prettify)
    IN  IF p.raised # "" \/ Unchanged(name, p.content, current)
        THEN {""}
        ELSE {"", "history", "readme"}

NoResponse == [content |-> <<>>, headers |-> NoHeaders]

Init ==
    /\ pc = "engine"
    /\ r = NoResponse
    /\ parsed_external_vars = EmptyDict
    /\ fetched = <<>>
    /\ saved = <<>>
    /\ current = NoFiles
    /\ history = NoFiles
    /\ readme = InitialReadme
    /\ clock = 0
    /\ call = NoCall
    /\ prev_call = NoCall
    /\ ncalls = 0
    /\ runs = 0
    /\ orphan = NoFiles
    /\ last_write = NoFiles

Call ==
    /\ ncalls < MaxCalls
    /\ \E resource \in Resources, headers \in HeaderSets :
         \E content \in Contents(resource) :
           LET response == [content |-> content, headers |-> headers]
           IN  \E fault \in Faults(resource.name, response, resource.prettify) :
                 save_response(resource.name, response, resource.prettify,
                               clock, fault)
    /\ UNCHANGED <<pc, r, parsed_external_vars, fetched, saved, runs>>

Next == Call

Spec == Init /\ [][Next]_vars

(***************************************************************************)
(* main.  Each fetch and the save_response call that follows it are one    *)
(* step; an exception that leaves main ends the run at "raised".           *)
(***************************************************************************)
\* line 111: b'external.texts.txt'
K_texts ==
    <<"e", "x", "t", "e", "r", "n", "a", "l", ".", "t", "e", "x", "t", "s",
      ".", "t", "x", "t">>

\* line 112: b'external.figurepartlist.txt'
K_figure ==
    <<"e", "x", "t", "e", "r", "n", "a", "l", ".", "f", "i", "g", "u", "r",
      "e", "p", "a", "r", "t", "l", "i", "s", "t", ".", "t", "x", "t">>

\* line 113: b'external.override.texts.txt'
K_override ==
    <<"e", "x", "t", "e", "r", "n", "a", "l", ".", "o", "v", "e", "r", "r",
      "i", "d", "e", ".", "t", "e", "x", "t", "s", ".", "t", "x", "t">>

\* the listing of the specification's example: two keys and a line that is no
\* key = value line
DocExample ==
    <<"e", "x", "t", "e", "r", "n", "a", "l", ".", "t", "e", "x", "t", "s",
      ".", "t", "x", "t", " ", "=", " ", "h", "t", "t", "p", ":", "/", "/",
      "x", "/", "a", ".", "t", "x", "t", "\n", "b", "a", "d", "l", "i", "n",
      "e", "\n", "e", "x", "t", "e", "r", "n", "a", "l", ".", "f", "i", "g",
      "u", "r", "e", "p", "a", "r", "t", "l", "i", "s", "t", ".", "t", "x",
      "t", "=", "h", "t", "t", "p", ":", "/", "/", "x", "/", "b", ".", "t",
      "x", "t", "\n">>

\* a listing with the three keys
DocAll ==
    <<"e", "x", "t", "e", "r", "n", "a", "l", ".", "t", "e", "x", "t", "s",
      ".", "t", "x", "t", "=", "h", "t", "t", "p", ":", "/", "/", "x", "/",
      "a", ".", "t", "x", "t", "\n", "e", "x", "t", "e", "r", "n", "a", "l",
      ".", "f", "i", "g", "u", "r", "e", "p", "a", "r", "t", "l", "i", "s",
      "t", ".", "t", "x", "t", "=", "h", "t", "t", "p", ":", "/", "/", "x",
      "/", "b", ".", "t", "x", "t", "\n", "e", "x", "t", "e", "r", "n", "a",
      "l", ".", "o", "v", "e", "r", "r", "i", "d", "e", ".", "t", "e", "x",
      "t", "s", ".", "t", "x", "t", "=", "h", "t", "t", "p", ":", "/", "/",
      "x", "/", "c", ".", "t", "x", "t", "\n">>

\* a listing with CRLF line ends: the first key has no value, the second key
\* is missing
DocCrLf ==
    <<"e", "x", "t", "e", "r", "n", "a", "l", ".", "t", "e", "x", "t", "s",
      ".", "t", "x", "t", "=", "\r", "\n", "e", "x", "t", "e", "r", "n", "a",
      "l", ".", "o", "v", "e", "r", "r", "i", "d", "e", ".", "t", "e", "x",
      "t", "s", ".", "t", "x", "t", "=", "h", "t", "t", "p", ":", "/", "/",
      "x", "/", "c", ".", "t", "x", "t", "\r", "\n">>

\* a listing with none of the keys
DocNoKeys ==
    <<"b", "a", "d", "l", "i", "n", "e", "\n">>

\* a listing in which a key appears twice
DocDuplicate ==
    <<"a", "=", "b", "\n", " ", "a", " ", "=", " ", "c", " ", "\n">>

\* a listing in which the value of a key is no UTF-8 text
DocNotUtf8 ==
    <<"e", "x", "t", "e", "r", "n", "a", "l", ".", "f", "i", "g", "u", "r",
      "e", "p", "a", "r", "t", "l", "i", "s", "t", ".", "t", "x", "t", "=",
      InvalidUtf8Byte, "\n">>

UrlA ==
    <<"h", "t", "t", "p", ":", "/", "/", "x", "/", "a", ".", "t", "x", "t">>

UrlB ==
    <<"h", "t", "t", "p", ":", "/", "/", "x", "/", "b", ".", "t", "x", "t">>

UrlC ==
    <<"h", "t", "t", "p", ":", "/", "/", "x", "/", "c", ".", "t", "x", "t">>

\* what http_client.get(CLIENT_URLS_URL) may return
ClientUrlsResponses ==
    {[content |-> c, headers |-> NoHeaders] : c \in {JsonA, NotUtf8}}

\* what http_client.get(EXTERNAL_VARS_URL) may return
ExternalVarsResponses ==
    {[content |-> c, headers |-> NoHeaders] :
        c \in {DocExample, DocAll, DocCrLf, DocNoKeys, DocNotUtf8}}

\* what a get of a discovered URL may return
FollowUpResponses == {[content |-> NotJson, headers |-> NoHeaders]}

\* the open() calls that may raise OSError in a call main makes
MainFaults(name, response, prettify) ==
    Faults(name, response, prettify) \ {"readme"}

\* where main goes after a save_response call that ended with outcome
After(outcome, next) ==
    IF outcome \in {"changed", "unchanged"} THEN next ELSE "raised"

InitMain ==
    /\ pc = "client_urls"
    /\ r = NoResponse
    /\ parsed_external_vars = EmptyDict
    /\ fetched = <<>>
    /\ saved = <<>>
    /\ current = NoFiles
    /\ history = NoFiles
    /\ readme = InitialReadme
    /\ clock = 0
    /\ call = NoCall
    /\ prev_call = NoCall
    /\ ncalls = 0
    /\ runs = 1
    /\ orphan = NoFiles
    /\ last_write = NoFiles

\* http_client.get raises (the transport's retries are used up, or the URL
\* is no URL): main ends
GetRaises(url) ==
    /\ fetched' = Append(fetched, url)
    /\ pc' = "raised"
    /\ UNCHANGED <<r, parsed_external_vars, saved, current, history, readme,
                   clock, call, prev_call, ncalls, runs, orphan, last_write>>

\* r = http_client.get(url); save_response(name, r, prettify)
GetAndSave(url, responses, name, prettify, next) ==
    \E response \in responses :
      \E fault \in MainFaults(name, response, prettify) :
        /\ fetched' = Append(fetched, url)
        /\ r' = response
        /\ saved' = Append(saved, name)
        /\ save_response(name, response, prettify, clock, fault)
        /\ pc' = After(call'.outcome, next)
        /\ UNCHANGED <<parsed_external_vars, runs>>

CLIENT_URLS_URL == <<"https://origins.habbo.com/gamedata/clienturls">>

EXTERNAL_VARS_URL == <<"http://origins-gamedata.habbo.com/external_variables/1">>

\* lines 98-104
MainClientUrls ==
    /\ pc = "client_urls"
    /\ \/ GetRaises(CLIENT_URLS_URL)
       \/ GetAndSave(CLIENT_URLS_URL, ClientUrlsResponses, N_client_urls,
                     TRUE, "external_vars")

\* lines 106-107
MainExternalVars ==
    /\ pc = "external_vars"
    /\ \/ GetRaises(EXTERNAL_VARS_URL)
       \/ GetAndSave(EXTERNAL_VARS_URL, ExternalVarsResponses,
                     N_external_vars, FALSE, "parse")

\* lines 109-113
MainParse ==
    /\ pc = "parse"
    /\ parsed_external_vars' = parse_external_vars(r.content)
    /\ pc' = "texts"
    /\ UNCHANGED <<r, fetched, saved, current, history, readme, clock, call,
                   prev_call, ncalls, runs, orphan, last_write>>

\* `if url is not None:`
Truthy_NotNone(url) == url # None

\* `if url:` of an optional byte string: neither None nor empty
Truthy(url) == url # None /\ url[1] # <<>>

\* url.decode() raises UnicodeDecodeError before anything is fetched: main
\* ends
DecodeRaises ==
    /\ pc' = "raised"
    /\ UNCHANGED <<r, parsed_external_vars, fetched, saved, current, history,
                   readme, clock, call, prev_call, ncalls, runs, orphan,
                   last_write>>

\* lines 115-117, 119-121, 123-125: if url: r = get(url.decode()); save
FollowUp(here, key, name, next) ==
    /\ pc = here
    /\ LET url == DictGet(parsed_external_vars, key)
       IN  IF Truthy(url)
           THEN IF DecodeFails(url[1])
                THEN DecodeRaises
                ELSE \/ GetRaises(url[1])
                     \/ GetAndSave(url[1], FollowUpResponses, name, FALSE,
                                   next)
           ELSE /\ pc' = next
                /\ UNCHANGED <<r, parsed_external_vars, fetched, saved,
                               current, history, readme, clock, call,
                               prev_call, ncalls, runs, orphan, last_write>>

MainTexts == FollowUp("texts", K_texts, N_external_texts, "figure")

MainFigure == FollowUp("figure", K_figure, N_figuredata, "override")

MainOverride == FollowUp("override", K_override, N_override_texts, "done")

\* the next scheduled run of the script, on the files the last one left
MainAgain ==
    /\ pc \in {"done", "raised"}
    /\ runs < MaxRuns
    /\ runs' = runs + 1
    /\ pc' = "client_urls"
    /\ r' = NoResponse
    /\ parsed_external_vars' = EmptyDict
    /\ fetched' = <<>>
    /\ saved' = <<>>
    /\ UNCHANGED <<current, history, readme, clock, call, prev_call, ncalls,
                   orphan, last_write>>

NextMain ==
    \/ MainClientUrls
    \/ MainExternalVars
    \/ MainParse
    \/ MainTexts
    \/ MainFigure
    \/ MainOverride
    \/ MainAgain

SpecMain == InitMain /\ [][NextMain]_vars

(***************************************************************************)
(* parse_external_vars on its own: main at line 109, with any bytes as the *)
(* content of the response.                                                *)
(***************************************************************************)
ParserAlphabet == {"a", ".", " ", "=", "\n", "\t", "/"}

ParserInputs ==
    UNION {[1..n -> ParserAlphabet] : n \in 0..MaxLen}
        \cup {DocExample, DocAll, DocCrLf, DocNoKeys, DocDuplicate}

InitParse ==
    /\ pc = "parse"
    /\ r \in {[content |-> c, headers |-> NoHeaders] : c \in ParserInputs}
    /\ parsed_external_vars = EmptyDict
    /\ fetched = <<>>
    /\ saved = <<>>
    /\ current = NoFiles
    /\ history = NoFiles
    /\ readme = InitialReadme
    /\ clock = 0
    /\ call = NoCall
    /\ prev_call = NoCall
    /\ ncalls = 0
    /\ runs = 1
    /\ orphan = NoFiles
    /\ last_write = NoFiles

NextParse == MainParse

SpecParse == InitParse /\ [][NextParse]_vars

(***************************************************************************)
(* What the claims speak of.                                               *)
(***************************************************************************)
\* the timestamp cell of name's Index row
IndexCell(name) ==
    LET i == CHOOSE j \in DOMAIN readme :
                 readme[j].link = Some(name) /\ Len(readme[j].cells) >= 2
    IN  readme[i].cells[Len(readme[i].cells)]

\* the step is a save_response call
IsCall == ncalls' = ncalls + 1

\* the call ran to its end without raising
Completed(c) == c.outcome \in {"changed", "unchanged"}

\* the content cannot be reformatted as JSON
NotReformattable(b) == DecodeFails(b) \/ json_loads(b) = None

\* the step is a call that repeats the call before it
RepeatsLastCall ==
    /\ IsCall
    /\ ncalls >= 1
    /\ call'.name = call.name
    /\ call'.content = call.content
    /\ call'.headers = call.headers
    /\ call'.prettify = call.prettify

\* no call so far was aborted by a failing open()
NoAbort == DOMAIN orphan = {}

\* the step writes no file
WritesNothing ==
    /\ current' = current
    /\ history' = history
    /\ readme' = readme

\* C1 (as claimed): a call that repeats the call before it (same resource,
\* same fetched content and headers, same prettify flag) returns at the hash
\* comparison and writes neither the Current Snapshot, nor an Archive Entry,
\* nor the Index.  (Stated for behaviours in which no open() fails.)
C1_Idempotent ==
    [][(RepeatsLastCall /\ NoAbort')
        => call'.outcome = "unchanged" /\ WritesNothing]_vars

\* the last two calls were for one resource
SameResource == ncalls >= 2 /\ prev_call.name = call.name

\* the call's Archive Entry exists and holds the raw content of the call
ArchivedRaw(c) ==
    /\ c.archive # None
    /\ c.archive[1] \in DOMAIN history
    /\ history[c.archive[1]] = c.content

\* C2 (as claimed): after two completed calls for one resource whose fetched
\* contents differ, two distinct Archive Entries exist, one holding the raw
\* content of each call.  (Stated for behaviours in which no open() fails.)
C2_TwoEntries ==
    (SameResource /\ Completed(prev_call) /\ Completed(call) /\ NoAbort
        /\ prev_call.content # call.content)
    => \E e1, e2 \in DOMAIN history :
         /\ e1 # e2
         /\ history[e1] = prev_call.content
         /\ history[e2] = call.content

\* C2 (amended): after two consecutive calls for one resource that both
\* detected a change and completed, two distinct Archive Entries exist, the
\* one named by each call holding the raw content fetched in that call, not
\* the reformatted content that was compared and stored.
C2_TwoEntriesWhenChanged ==
    (SameResource /\ prev_call.outcome = "changed" /\ call.outcome = "changed")
    => /\ prev_call.archive # call.archive
       /\ ArchivedRaw(prev_call)
       /\ ArchivedRaw(call)
       /\ current[call.name] = call.compared

C2_Witness ==
    /\ SameResource
    /\ prev_call.outcome = "changed"
    /\ call.outcome = "changed"
    /\ call.prettify
    /\ call.compared # call.content
    /\ prev_call.content # call.content

\* C3 (as claimed): no step overwrites, changes or deletes an Archive Entry:
\* every entry keeps its name and its bytes.  (Stated for behaviours in
\* which no open() fails.)
C3_WriteOnce ==
    [][NoAbort'
        => \A e \in DOMAIN history :
             e \in DOMAIN history' /\ history'[e] = history[e]]_vars

\* C4 (as claimed): after every completed call, each resource's Index row
\* holds the timestamp of the call that last wrote the resource's Current
\* Snapshot.
C4_IndexIsLastWrite ==
    Completed(call)
    => \A name \in DOMAIN last_write :
         IndexCell(name) = TimestampCell(last_write[name])

\* C5 (as claimed): a call with prettify on whose content cannot be
\* reformatted as JSON does not raise on that account: it compares and stores
\* the raw content, and on a change writes the Archive Entry and the Index.
\* (Stated for behaviours in which no open() fails.)
C5_ReformatFallback ==
    (ncalls >= 1 /\ call.prettify /\ NotReformattable(call.content) /\ NoAbort)
    => /\ Completed(call)
       /\ call.compared = call.content
       /\ current[call.name] = call.content
       /\ call.outcome = "changed"
          => ArchivedRaw(call) /\ IndexCell(call.name) = TimestampCell(call.timestamp[1])

\* C6: a call changes, in the Index, only the last cell of the rows that
\* link the call's resource; the other rows, the other cells, the links and
\* the number of lines stay as they were.
C6_IndexFrame ==
    [][/\ DOMAIN readme' = DOMAIN readme
       /\ \A i \in DOMAIN readme :
            /\ readme'[i].link = readme[i].link
            /\ Len(readme'[i].cells) = Len(readme[i].cells)
            /\ \A j \in 1..(Len(readme[i].cells) - 1) :
                 readme'[i].cells[j] = readme[i].cells[j]
            /\ readme'[i] # readme[i]
               => IsCall /\ readme[i].link = Some(call'.name)]_vars

C6_Witness ==
    /\ NoAbort
    /\ call.name = N_external_vars
    /\ call.outcome = "changed"
    /\ IndexCell(N_external_vars) # Row(N_external_vars).cells[2]
    /\ IndexCell(N_client_urls) # Row(N_client_urls).cells[2]

\* the timestamp the claim names: the second of the Last-Modified header if
\* the call had one, else the second of the clock at the call
ClaimedTimestamp(c) ==
    <<"2024-06-01", "T", "10", "-", "00", "-",
      IF "Last-Modified" \in DOMAIN c.headers
      THEN c.headers["Last-Modified"][6]
      ELSE TwoDigits[(c.now \div TicksPerSecond) + 1]>>

\* C7: a call that detects a change takes as its timestamp the parsed
\* Last-Modified header if there is one and the current time otherwise,
\* never None; a completed one names its Archive Entry and rewrites its Index
\* row with that timestamp.
C7_Timestamp ==
    (call.outcome \in {"changed", "OSError"})
    => /\ call.timestamp # None
       /\ call.timestamp[1] = ClaimedTimestamp(call)
       /\ call.outcome = "changed"
          => /\ call.archive[1] \in DOMAIN history
             /\ call.archive[1][2] = ClaimedTimestamp(call)
             /\ IndexCell(call.name) = TimestampCell(ClaimedTimestamp(call))

C7_Witness ==
    /\ call.outcome = "changed"
    /\ "Last-Modified" \notin DOMAIN call.headers
    /\ prev_call.outcome = "changed"
    /\ "Last-Modified" \in DOMAIN prev_call.headers

\* the last call repeats the input of an earlier call for its resource that
\* was aborted after it had overwritten the Current Snapshot
RetriesAborted ==
    /\ call.name \in DOMAIN orphan
    /\ call.seq > orphan[call.name].seq
    /\ call.content = orphan[call.name].content
    /\ call.prettify = orphan[call.name].prettify

\* C10 (as claimed): every later call with the content of an aborted call
\* returns as unchanged.
C10_EveryLaterCall == RetriesAborted => call.outcome = "unchanged"

\* C10 (amended): an aborted call has written the Current Snapshot and not
\* the Index (nor, when it failed at the Archive Entry, the entry); and a
\* later call with the same content, made while the Current Snapshot is
\* still the one the aborted call wrote, returns as unchanged and writes
\* nothing.
C10_WhileSnapshotStands ==
    [][IsCall =>
        /\ call'.outcome = "OSError"
           => /\ current'[call'.name] = call'.compared
              /\ readme' = readme
              /\ call'.fault = "history" => history' = history
        /\ (/\ call'.name \in DOMAIN orphan
            /\ orphan[call'.name].intact
            /\ call'.content = orphan[call'.name].content
            /\ call'.prettify = orphan[call'.name].prettify)
           => call'.outcome = "unchanged" /\ WritesNothing]_vars

C10_Witness ==
    /\ RetriesAborted
    /\ orphan[call.name].intact
    /\ call.outcome = "unchanged"
    /\ IndexCell(call.name) = Row(call.name).cells[2]

\* the three follow-up fetches of main: where main is at, the key looked up,
\* the fixed target name, and where main goes next
FollowUps ==
    {<<"texts", K_texts, N_external_texts, "figure">>,
     <<"figure", K_figure, N_figuredata, "override">>,
     <<"override", K_override, N_override_texts, "done">>}

\* the step decodes and fetches url and, unless the decoding or the fetch
\* raises, passes the response to save_response under name, not reformatted
FetchesAndSaves(url, name) ==
    IF DecodeFails(url)
    THEN /\ pc' = "raised"
         /\ fetched' = fetched
         /\ saved' = saved
         /\ ncalls' = ncalls
         /\ WritesNothing
    ELSE /\ fetched' = Append(fetched, url)
         /\ \/ /\ pc' = "raised"
               /\ ncalls' = ncalls
               /\ saved' = saved
               /\ WritesNothing
            \/ /\ IsCall
               /\ saved' = Append(saved, name)
               /\ call'.name = name
               /\ call'.content = r'.content
               /\ ~call'.prettify

\* the step fetches nothing, calls nothing, writes nothing and goes on
Skips(next) ==
    /\ pc' = next
    /\ fetched' = fetched
    /\ saved' = saved
    /\ ncalls' = ncalls
    /\ WritesNothing

\* C8 (as claimed): for each of the three keys, main skips the fetch when the
\* key is absent from the parsed map, goes on to the next key without
\* raising, and fetches and archives under the fixed name when the key is
\* present.
C8_PresentIsFetched ==
    [][\A f \in FollowUps :
          pc = f[1]
          => IF f[2] \in DOMAIN parsed_external_vars
             THEN FetchesAndSaves(parsed_external_vars[f[2]], f[3])
             ELSE Skips(f[4])]_vars

\* C8 (amended): main skips the fetch when the key is absent from the parsed
\* map or its value is empty, and, when the key is present with a value that
\* is not empty, decodes the value and fetches and archives under the fixed
\* name unless the decoding or the fetch raises.
C8_NonEmptyIsFetched ==
    [][\A f \in FollowUps :
          pc = f[1]
          => IF /\ f[2] \in DOMAIN parsed_external_vars
                /\ parsed_external_vars[f[2]] # <<>>
             THEN FetchesAndSaves(parsed_external_vars[f[2]], f[3])
             ELSE Skips(f[4])]_vars

C8_Witness ==
    /\ pc = "done"
    /\ K_texts \in DOMAIN parsed_external_vars
    /\ parsed_external_vars[K_texts] = <<>>
    /\ K_figure \notin DOMAIN parsed_external_vars
    /\ K_override \in DOMAIN parsed_external_vars
    /\ saved = <<N_client_urls, N_external_vars, N_override_texts>>
    /\ fetched = <<CLIENT_URLS_URL, EXTERNAL_VARS_URL, UrlC>>
    /\ N_override_texts \in DOMAIN current
    /\ N_external_texts \notin DOMAIN current

\* line, from its start: a spaces, a key up to b, spaces up to c, "=", and at
\* least one more character
KeyValueForm(line, a, b, c) ==
    /\ \A k \in 1..a : line[k] = " "
    /\ b > a
    /\ \A k \in (a + 1)..b : line[k] \in Letters \cup Digits \cup {"_", "."}
    /\ \A k \in (b + 1)..c : line[k] = " "
    /\ Len(line) >= c + 2
    /\ line[c + 1] = "="

\* the key and the stripped value of every line of content of that form
KeyValueLines(content) ==
    LET lines == SplitLines(content)
    IN  UNION {
          UNION {
            UNION {
              { <<SubSeq(lines[i], a + 1, b),
                  Strip(SubSeq(lines[i], c + 2, Len(lines[i])))>> :
                  c \in {x \in b..Len(lines[i]) :
                            KeyValueForm(lines[i], a, b, x)} } :
              b \in (a + 1)..Len(lines[i]) } :
            a \in 0..Len(lines[i]) } :
          i \in DOMAIN lines }

\* C9: the map parse_external_vars returns holds one entry for each key of a
\* key = value line of the content and no other, each with the stripped
\* value of such a line; for the example of the specification it holds the
\* two keys with their two URLs.
C9_Parse ==
    pc = "texts"
    => /\ DOMAIN parsed_external_vars
            = {e[1] : e \in KeyValueLines(r.content)}
       /\ \A k \in DOMAIN parsed_external_vars :
            <<k, parsed_external_vars[k]>> \in KeyValueLines(r.content)
       /\ r.content = DocExample
          => parsed_external_vars
                = DictSet(DictSet(EmptyDict, K_texts, UrlA), K_figure, UrlB)

C9_Witness ==
    /\ pc = "texts"
    /\ r.content = DocExample
    /\ DOMAIN parsed_external_vars = {K_texts, K_figure}
    /\ parsed_external_vars[K_texts] = UrlA

====
